---- MODULE Spec2Model ----
(***************************************************************************)
(* Category graph assembly, pruning and sharded export of wiki-categories  *)
(* (src/categories/process_categories.py), as a state machine.             *)
(*                                                                         *)
(* A run of process_categories assembles the tree data from the Page and   *)
(* CategoryLink inputs (or unpickles the snapshot of an earlier run),      *)
(* builds and prunes the graph (explicit exclusions, small categories,     *)
(* largest component), generates the category files on one thread, writes  *)
(* them with a worker pool and writes the directory indices last.          *)
(* cli.main may be called again after a completed run.                     *)
(*                                                                         *)
(* Abstractions: the CategoryLink stream is a set (each link at most once, *)
(* a category's article list in ascending id order); the iteration order   *)
(* of the graph, which is the insertion order of the edges, is left        *)
(* open but is the same whenever the same links are read again; a file's   *)
(* content is the tuple of fields handed to _serialize_category, whose     *)
(* bytes the codec operators compute; a dir_list.index is the sequence of  *)
(* ids in the order os.listdir gave them; GH_PAGES_URL is not set, so no   *)
(* run is skipped as redundant.                                            *)
(***************************************************************************)
EXTENDS Integers, Naturals, Sequences, FiniteSets, TLC

\* ------------------------------------------------------------------ bounds
\* MaxCat categories and MaxArt articles are known pages; a run reads at most
\* MaxLinks category links and its config lists at most MaxExcluded ids.
MaxCat == 4
MaxArt == 2
MaxLinks == 4
MaxExcluded == 1
\* cli.main is called at most MaxRuns times in a row; the order of a
\* directory listing is left open for up to MaxListed entries.
MaxRuns == 2
MaxListed == 3

CategoryIds == 1..MaxCat
MoreCategoryIds == 1..(MaxCat + 1)
ArticleId(i) == 100 + i
ArticleIds == {ArticleId(i) : i \in 1..MaxArt}
ScenarioArticleIds == {ArticleId(i) : i \in 1..7}
RoundingCategoryIds == 1..51
CategoryNames ==
    [c \in RoundingCategoryIds |->
        IF c <= 8 THEN <<"A", "B", "C", "D", "E", "F", "G", "H">>[c]
        ELSE "C" \o ToString(c)]
ArticleNames == <<"a1", "a2", "a3", "a4", "a5", "a6", "a7", "a8", "a9">>
Percentiles == {0, 50}
AllPercentiles == 0..100
ModOperands == {2}
MaxArticlesChoices == {-1}
LimitChoices == {-1, 1}
SamplingArticleIds == {ArticleId(i) : i \in 1..3}
SamplingLimits == {-1, 1, 2}

VARIABLES
    pages,                \* input: the Page records
    category_links,       \* input: the CategoryLink records
    config,               \* RunConfig
    data,                 \* _CategoryTreeData
    cat_graph,            \* nx.DiGraph: [nodes, edges]
    excluded_categories,  \* process_categories: local
    excluded_articles,    \* process_categories: local
    min_article_count,    \* _remove_small_categories: local
    small_categories,     \* _remove_small_categories: local
    to_remove,            \* _keep_largest_graph_component: local
    added_articles,       \* _process_and_write_categories: accumulator
    tasks,                \* (path, contents) items handed to the executor
    completed,            \* tasks whose write_file returned
    failed_writes,        \* tasks whose write_file raised
    dirs,                 \* disk: shard directories under dest
    files,                \* disk: path -> contents of the .category files
    root_index,           \* disk: dest/dir_list.index ({} when absent)
    shard_index,          \* disk: dest/<shard>/dir_list.index
    result,               \* the CategoriesInfo returned ({} when none)
    error,                \* the exception that left process_categories
    cache,                \* disk: the pickled tree data ({} when absent)
    previous,             \* what the run before this one read and left ({} when none)
    run,                  \* the number of runs started
    pc

vars == <<pages, category_links, config, data, cat_graph, excluded_categories,
          excluded_articles, min_article_count, small_categories, to_remove,
          added_articles, tasks, completed, failed_writes, dirs, files,
          root_index, shard_index, result, error, cache, previous, run,
          pc>>

\* ----------------------------------------------------------------- helpers
RECURSIVE SubsetsUpTo(_, _)
SubsetsUpTo(S, k) ==
    IF k = 0 THEN {{}}
    ELSE LET prev == SubsetsUpTo(S, k - 1)
         IN  prev \cup {T \cup {x} : T \in prev, x \in S}

Min(S) == CHOOSE x \in S : \A y \in S : x <= y

RECURSIVE SeqOfSet(_)
SeqOfSet(S) == IF S = {} THEN <<>> ELSE <<Min(S)>> \o SeqOfSet(S \ {Min(S)})

Range(s) == {s[i] : i \in DOMAIN s}

\* the orders in which a set can be iterated
Orderings(S) ==
    {f \in [1..Cardinality(S) -> S] : \A i, j \in DOMAIN f : f[i] = f[j] => i = j}

\* ---------------------------------------------------------- the nx.DiGraph
EmptyGraph == [nodes |-> {}, edges |-> {}]

AddEdgesFrom(G, edges) ==
    [nodes |-> G.nodes \cup {e[1] : e \in edges} \cup {e[2] : e \in edges},
     edges |-> G.edges \cup edges]

Successors(G, n) == {e[2] : e \in {d \in G.edges : d[1] = n}}

Predecessors(G, n) == {e[1] : e \in {d \in G.edges : d[2] = n}}

\* (mutation: the edges of a removed node are left behind)
RemoveNodesFrom_KeepEdges(G, S) == [nodes |-> G.nodes \ S, edges |-> G.edges]

RemoveNodesFrom(G, S) ==
    [nodes |-> G.nodes \ S,
     edges |-> {e \in G.edges : e[1] \notin S /\ e[2] \notin S}]

Neighbours(G, S) ==
    {n \in G.nodes : \E m \in S : <<m, n>> \in G.edges \/ <<n, m>> \in G.edges}

RECURSIVE ComponentOf(_, _)
ComponentOf(G, S) ==
    LET next == S \cup Neighbours(G, S)
    IN  IF next = S THEN S ELSE ComponentOf(G, next)

ConnectedComponents(G) == {ComponentOf(G, {n}) : n \in G.nodes}

\* ------------------------------------------------------ the tree assembler
IdsOfName(id_to_name, name) == {c \in DOMAIN id_to_name : id_to_name[c] = name}

\* the child of a link with a known parent: an article link needs a known
\* article, a subcategory link a known category
\* (mutation: the child of a subcategory link is not looked up)
ChildResolves_SubcategoryUnchecked(l, article_ids, category_ids) ==
    l.is_article => l.child_id \in article_ids

ChildResolves(l, article_ids, category_ids) ==
    IF l.is_article THEN l.child_id \in article_ids
    ELSE l.child_id \in category_ids

GetCategoryTreeData(links, pgs) ==
    LET article_ids == {p.page_id : p \in {q \in pgs : q.is_article}}
        category_ids == {p.page_id : p \in {q \in pgs : ~q.is_article}}
        NameOf(id, art) ==
            (CHOOSE p \in pgs : p.page_id = id /\ p.is_article = art).name
        ain == [a \in article_ids |-> NameOf(a, TRUE)]
        cin == [c \in category_ids |-> NameOf(c, FALSE)]
        resolved == {l \in links : /\ IdsOfName(cin, l.parent_name) # {}
                                   /\ ChildResolves(l, article_ids, category_ids)}
        ParentId(l) == CHOOSE c \in IdsOfName(cin, l.parent_name) : TRUE
    IN  [article_id_to_name |-> ain,
         category_id_to_name |-> cin,
         category_edges |->
             {<<ParentId(l), l.child_id>> : l \in {k \in resolved : ~k.is_article}},
         category_to_articles |->
             [c \in category_ids |->
                 SeqOfSet({l.child_id :
                     l \in {k \in resolved : k.is_article /\ ParentId(k) = c}})]]

\* pickle.load of what pickle.dump stored
PickleLoad(snapshot) == snapshot

EmptyData ==
    [article_id_to_name |-> <<>>, category_id_to_name |-> <<>>,
     category_edges |-> {}, category_to_articles |-> <<>>]

\* data.category_to_articles[n] of the defaultdict: a missing key reads as empty
ArticlesOf(d, n) ==
    IF n \in DOMAIN d.category_to_articles THEN d.category_to_articles[n] ELSE <<>>

\* ------------------------------------------------------------ _get_excluded
\* cat_graph.successors(n) raises NetworkXError for a node the graph lacks
SuccessorsRaises(G, n) == n \notin G.nodes

ParentsVisited(cfg, G) == {e \in cfg.excluded_parents : e \in G.nodes}

GrandparentsVisited(cfg, G) == {e \in cfg.excluded_grandparents : e \in G.nodes}

ExplicitExcluded(cfg) ==
    cfg.excluded_parents \cup cfg.excluded_grandparents
        \cup cfg.excluded_article_categories

\* (mutation: only the listed ids are excluded)
ParentSuccessors_None(cfg, G) == {}

ParentSuccessors(cfg, G) ==
    UNION {Successors(G, e) : e \in ParentsVisited(cfg, G)}

\* (mutation: one level down only)
GrandparentSuccessors_OneLevel(cfg, G) ==
    UNION {Successors(G, e) : e \in GrandparentsVisited(cfg, G)}

GrandparentSuccessors(cfg, G) ==
    UNION {Successors(G, e) \cup UNION {Successors(G, child) : child \in Successors(G, e)} :
              e \in GrandparentsVisited(cfg, G)}

GetExcludedRaises(cfg, G) ==
    \E e \in ParentsVisited(cfg, G) \cup GrandparentsVisited(cfg, G) :
        SuccessorsRaises(G, e)

GetExcludedCategories(cfg, G) ==
    ExplicitExcluded(cfg) \cup ParentSuccessors(cfg, G) \cup GrandparentSuccessors(cfg, G)

GetExcludedArticles(cfg, d) ==
    UNION {Range(ArticlesOf(d, a)) : a \in cfg.excluded_article_categories}

\* ------------------------------------------------------------ pruning stages
\* (mutation: the filtered lists are not stored back)
RemoveArticles_NotStored(d, excluded) == d

RemoveArticles(d, excluded) ==
    [d EXCEPT !.category_to_articles =
        [c \in DOMAIN @ |-> SelectSeq(@[c], LAMBDA a : a \notin excluded)]]

RemoveCategories(G, excluded) ==
    IF excluded # {} THEN RemoveNodesFrom(G, excluded) ELSE G

BuildCategoryGraph(d) == AddEdgesFrom(EmptyGraph, d.category_edges)

ArticleCount(d, n) == Len(ArticlesOf(d, n))

RECURSIVE SortedCounts(_, _)
SortedCounts(S, d) ==
    IF S = {} THEN <<>>
    ELSE LET n == CHOOSE x \in S : \A y \in S : ArticleCount(d, x) <= ArticleCount(d, y)
         IN  <<ArticleCount(d, n)>> \o SortedCounts(S \ {n}, d)

\* floor of the percentile by linear interpolation between the two nearest
\* ranks of the sorted counts, in exact arithmetic
LinearPercentileFloor(sorted, q) ==
    LET num == (Len(sorted) - 1) * q
        lo == num \div 100
        r == num % 100
    IN  IF r = 0 THEN sorted[lo + 1]
        ELSE sorted[lo + 1] + ((sorted[lo + 2] - sorted[lo + 1]) * r) \div 100

\* np.percentile computes the virtual index (n - 1) * (q / 100) in doubles:
\* of the n up to 60 and the whole q in 0..100 whose index is a whole number,
\* the product falls short of it for n = 51, q = 58 only
\* (50 * 0.58 = 28.999999999999996).
VirtualIndexFallsShort(n, q) == <<n, q>> \in {<<51, 58>>}

\* int(np.percentile(a, q)): the doubles agree with the exact value after
\* truncation for the counts of this model, except where the virtual index
\* falls short: then the interpolation runs from the rank below, with a
\* weight just under 1, and stays under the value of the rank it should
\* have hit
Percentile(sorted, q) ==
    LET num == (Len(sorted) - 1) * q
        lo == num \div 100
    IN  IF VirtualIndexFallsShort(Len(sorted), q) /\ sorted[lo + 1] > sorted[lo]
        THEN sorted[lo + 1] - 1
        ELSE LinearPercentileFloor(sorted, q)

\* np.percentile of an empty list yields no number int() accepts
PercentileRaises(G) == G.nodes = {}

GetArticleCountPercentile(G, cfg, d) ==
    Percentile(SortedCounts(G.nodes, d), cfg.article_count_percentile)

\* (mutation: the percentile itself as the threshold)
MinArticleCount_NoPlusOne(G, cfg, d) == GetArticleCountPercentile(G, cfg, d)

MinArticleCount(G, cfg, d) == GetArticleCountPercentile(G, cfg, d) + 1

SmallCategories(G, d, min_count) ==
    {n \in G.nodes : ArticleCount(d, n) < min_count}

\* max(...) of no component raises ValueError
LargestRaises(G) == ConnectedComponents(G) = {}

\* (mutation: max without key=len, any component may win)
LargestComponents_Any(G) == ConnectedComponents(G)

LargestComponents(G) ==
    {c \in ConnectedComponents(G) :
        \A o \in ConnectedComponents(G) : Cardinality(o) <= Cardinality(c)}

\* max() returns the first of the largest components in the iteration order
\* of the graph, which is the order of the link stream: any of them, but a
\* run that reads the stream the run before it read decides as that run did
FirstLargest(G, links, before) ==
    LET decided == {r.kept : r \in {b \in before : b.category_links = links}}
                       \cap LargestComponents(G)
    IN  IF decided # {} THEN decided ELSE LargestComponents(G)

\* ------------------------------------------------------------------ export
\* (mutation: // for %)
ShardOf_Div(category, balancing_mod) == category \div balancing_mod

ShardOf(category, balancing_mod) == category % balancing_mod

\* category_chunk_dir.joinpath(f"{category}.category")
\* (mutation: the file is named after its shard)
PathOf_NamedAfterShard(category, balancing_mod) ==
    <<ShardOf(category, balancing_mod), ShardOf(category, balancing_mod)>>

PathOf(category, balancing_mod) == <<ShardOf(category, balancing_mod), category>>

FilteredArticles(d, category) ==
    SelectSeq(ArticlesOf(d, category), LAMBDA a : a \in DOMAIN d.article_id_to_name)

Injections(k, S) ==
    {f \in [1..k -> S] : \A i, j \in 1..k : f[i] = f[j] => i = j}

\* random.sample(articles, k): k distinct positions, in any order
RandomSample(articles, k) ==
    {[i \in 1..k |-> articles[f[i]]] : f \in Injections(k, DOMAIN articles)}

\* (mutation: the limit is never applied)
ArticleChoices_Unlimited(d, category, max_articles) == {FilteredArticles(d, category)}

ArticleChoices(d, category, max_articles) ==
    LET articles == FilteredArticles(d, category)
    IN  IF max_articles # -1 /\ Len(articles) > max_articles
        THEN RandomSample(articles, max_articles)
        ELSE {articles}

\* added_articles.update(articles)
\* (mutation: the set is replaced by the articles of the last category)
UpdateAddedArticles_Assign(added, articles) == Range(articles)

UpdateAddedArticles(added, articles) == added \cup Range(articles)

FileContents(G, d, category, articles) ==
    [name |-> d.category_id_to_name[category],
     predecessors |-> Predecessors(G, category),
     successors |-> Successors(G, category),
     articles |-> articles,
     article_names |-> [i \in DOMAIN articles |-> d.article_id_to_name[articles[i]]]]

\* the for loop over executor.map re-raises the first exception of a write
\* (mutation: the results are never looked at)
ResultsRaise_Swallowed == FALSE

ResultsRaise == failed_writes # {}

\* _dir_list_content: the integer stems of a directory's entries
\* (mutation: only the shards that hold a file)
RootDirList_NonEmpty(shard_dirs, fs) == {s \in shard_dirs : \E p \in DOMAIN fs : p[1] = s}

RootDirList(shard_dirs, fs) == shard_dirs

ShardDirList(shard, fs) == {p[2] : p \in {q \in DOMAIN fs : q[1] = shard}}

\* os.listdir: the entries of a directory, in arbitrary order (every order
\* of up to MaxListed entries; of a longer listing the ascending one only)
ListDir(entries) ==
    IF Cardinality(entries) <= MaxListed THEN Orderings(entries)
    ELSE {SeqOfSet(entries)}

\* ---------------------------------------------------------- the binary codec
\* str.encode(): the UTF-8 bytes of the names the pages carry
NameBytes ==
    {<<"A", <<65>>>>, <<"B", <<66>>>>, <<"C", <<67>>>>, <<"D", <<68>>>>,
     <<"E", <<69>>>>, <<"F", <<70>>>>, <<"G", <<71>>>>, <<"H", <<72>>>>,
     <<"a1", <<97, 49>>>>, <<"a2", <<97, 50>>>>, <<"a3", <<97, 51>>>>,
     <<"a4", <<97, 52>>>>, <<"a5", <<97, 53>>>>, <<"a6", <<97, 54>>>>,
     <<"a7", <<97, 55>>>>, <<"a8", <<97, 56>>>>, <<"a9", <<97, 57>>>>}

Encode(name) == (CHOOSE p \in NameBytes : p[1] = name)[2]

\* struct.pack(">I", v) and int.to_bytes(length=4, byteorder="big")
Uint32(v) ==
    <<(v \div 16777216) % 256, (v \div 65536) % 256, (v \div 256) % 256, v % 256>>

RECURSIVE Concat(_)
Concat(seqs) == IF seqs = <<>> THEN <<>> ELSE Head(seqs) \o Concat(Tail(seqs))

BytesFromUint32(val) == Concat([i \in DOMAIN val |-> Uint32(val[i])])

\* (mutation: the prefix counts the field's entries of four bytes)
SerializeFields_EntryCount(fields) ==
    Concat([i \in DOMAIN fields |-> Uint32(Len(fields[i]) \div 4) \o fields[i]])

SerializeFields(fields) ==
    Concat([i \in DOMAIN fields |-> Uint32(Len(fields[i])) \o fields[i]])

\* b"\0".join(...)
RECURSIVE JoinNul(_)
JoinNul(parts) ==
    IF parts = <<>> THEN <<>>
    ELSE IF Len(parts) = 1 THEN parts[1]
    ELSE parts[1] \o <<0>> \o JoinNul(Tail(parts))

SerializeCategory(name, predecessors, successors, articles, article_names) ==
    SerializeFields(<<Encode(name),
                      BytesFromUint32(predecessors),
                      BytesFromUint32(successors),
                      BytesFromUint32(articles),
                      JoinNul([i \in DOMAIN article_names |-> Encode(article_names[i])])>>)

\* the byte strings a record of fields may be written as, one per order in
\* which the graph yields the predecessors and the successors
RecordBytes(f) ==
    {SerializeCategory(f.name, preds, succs, f.articles, f.article_names) :
        preds \in Orderings(f.predecessors), succs \in Orderings(f.successors)}

\* The reader of a .category file, after the layout the format documents:
\* five fields, each behind its 4-byte big-endian length in bytes.
DecodeUint32(b) == b[1] * 16777216 + b[2] * 65536 + b[3] * 256 + b[4]

RECURSIVE ReadFields(_)
ReadFields(bytes) ==
    IF Len(bytes) < 4 THEN <<>>
    ELSE LET length == DecodeUint32(SubSeq(bytes, 1, 4))
         IN  <<SubSeq(bytes, 5, 4 + length)>>
                 \o ReadFields(SubSeq(bytes, 5 + length, Len(bytes)))

\* the number of fields the bytes split into, -1 when a length runs past the end
RECURSIVE CountFields(_)
CountFields(bytes) ==
    IF bytes = <<>> THEN 0
    ELSE IF Len(bytes) < 4 THEN -1
    ELSE LET length == DecodeUint32(SubSeq(bytes, 1, 4))
         IN  IF 4 + length > Len(bytes) THEN -1
             ELSE LET rest == CountFields(SubSeq(bytes, 5 + length, Len(bytes)))
                  IN  IF rest = -1 THEN -1 ELSE rest + 1

ReadUint32s(field) ==
    [i \in 1..(Len(field) \div 4) |-> DecodeUint32(SubSeq(field, 4 * i - 3, 4 * i))]

RECURSIVE SplitNul(_)
SplitNul(field) ==
    IF \A i \in DOMAIN field : field[i] # 0 THEN <<field>>
    ELSE LET at == CHOOSE i \in DOMAIN field :
                       field[i] = 0 /\ \A j \in 1..(i - 1) : field[j] # 0
         IN  <<SubSeq(field, 1, at - 1)>> \o SplitNul(SubSeq(field, at + 1, Len(field)))

Decode(bytes) == (CHOOSE p \in NameBytes : p[2] = bytes)[1]

Decodable(bytes) == \E p \in NameBytes : p[2] = bytes

WellFormed(bytes) ==
    /\ CountFields(bytes) = 5
    /\ LET fields == ReadFields(bytes)
       IN  /\ Decodable(fields[1])
           /\ \A k \in 2..4 : Len(fields[k]) % 4 = 0
           /\ fields[5] # <<>> =>
                  \A i \in DOMAIN SplitNul(fields[5]) : Decodable(SplitNul(fields[5])[i])

DecodeCategory(bytes) ==
    LET fields == ReadFields(bytes)
        names == IF fields[5] = <<>> THEN <<>> ELSE SplitNul(fields[5])
    IN  [name |-> Decode(fields[1]),
         predecessors |-> ReadUint32s(fields[2]),
         successors |-> ReadUint32s(fields[3]),
         articles |-> ReadUint32s(fields[4]),
         article_names |-> [i \in DOMAIN names |-> Decode(names[i])]]

\* -------------------------------------------------------------------- inputs
\* A Page and a CategoryLink carry the attributes _get_category_tree_data
\* reads: page_id, is_article, name; parent_name, child_id, is_article.
AllPages(category_ids, article_ids) ==
    {[page_id |-> c, is_article |-> FALSE, name |-> CategoryNames[c]] :
        c \in category_ids}
    \cup {[page_id |-> a, is_article |-> TRUE, name |-> ArticleNames[a - 100]] :
        a \in article_ids}

SubcatLinks(parents, children) ==
    {[parent_name |-> CategoryNames[p], child_id |-> c, is_article |-> FALSE] :
        p \in parents, c \in children}

ArticleLinks(parents, article_ids) ==
    {[parent_name |-> CategoryNames[p], child_id |-> a, is_article |-> TRUE] :
        p \in parents, a \in article_ids}

LinkUniverse(category_ids, article_ids) ==
    SubcatLinks(category_ids, category_ids) \cup ArticleLinks(category_ids, article_ids)

ExclusionChoices ==
    LET ids == SubsetsUpTo(CategoryIds, MaxExcluded)
    IN  {x \in ids \X ids \X ids :
            Cardinality(x[1]) + Cardinality(x[2]) + Cardinality(x[3]) <= MaxExcluded}

RunConfig(excl, max_articles, balancing_mod, percentile) ==
    [excluded_parents |-> excl[1],
     excluded_grandparents |-> excl[2],
     excluded_article_categories |-> excl[3],
     max_articles_per_category |-> max_articles,
     balancing_mod_operand |-> balancing_mod,
     article_count_percentile |-> percentile,
     use_cache |-> FALSE,
     clean |-> FALSE]

\* The state process_categories starts in: the inputs, nothing computed, and
\* the destination directory empty (cli._prepare_output_dir).
InitRun ==
    /\ data = EmptyData
    /\ cat_graph = EmptyGraph
    /\ excluded_categories = {}
    /\ excluded_articles = {}
    /\ min_article_count = 0
    /\ small_categories = {}
    /\ to_remove = {}
    /\ added_articles = {}
    /\ tasks = {}
    /\ completed = {}
    /\ failed_writes = {}
    /\ dirs = {}
    /\ files = <<>>
    /\ root_index = {}
    /\ shard_index = <<>>
    /\ result = {}
    /\ error = "none"
    /\ cache = {}
    /\ previous = {}
    /\ run = 1
    /\ pc = "start"

\* Any links among MaxCat categories and MaxArt articles, any one exclusion.
Init ==
    /\ pages = AllPages(CategoryIds, ArticleIds)
    /\ category_links \in SubsetsUpTo(LinkUniverse(CategoryIds, ArticleIds), MaxLinks)
    /\ \E excl \in ExclusionChoices, m \in MaxArticlesChoices,
          b \in ModOperands, q \in Percentiles :
            config = RunConfig(excl, m, b, q)
    /\ InitRun

\* One more category, for a grandparent with grandchildren and a part of the
\* graph that outlives it: the only exclusion is one excluded grandparent.
InitGrandparents ==
    /\ pages = AllPages(MoreCategoryIds, ArticleIds)
    /\ category_links \in SubsetsUpTo(LinkUniverse(MoreCategoryIds, ArticleIds), MaxLinks)
    /\ \E g \in MoreCategoryIds, m \in MaxArticlesChoices, b \in ModOperands :
            config = RunConfig(<<{}, {g}, {}>>, m, b, 0)
    /\ InitRun

\* One more link, for graphs that enter the connectivity cleanup with
\* components of different sizes: no exclusions.
InitComponents ==
    /\ pages = AllPages(CategoryIds, ArticleIds)
    /\ category_links \in SubsetsUpTo(LinkUniverse(CategoryIds, ArticleIds), MaxLinks + 1)
    /\ \E m \in MaxArticlesChoices, b \in ModOperands, q \in Percentiles :
            config = RunConfig(<<{}, {}, {}>>, m, b, q)
    /\ InitRun

\* The scenario of two categories A -> B, B holding 5 known articles, A any
\* of the 7 known ones, articleCountPercentile = 0, balancingModOperand = 10.
InitScenario ==
    /\ pages = AllPages(1..2, ScenarioArticleIds)
    /\ \E articles_of_A \in SUBSET ScenarioArticleIds :
         category_links = SubcatLinks({1}, {2})
                            \cup ArticleLinks({2}, {ArticleId(i) : i \in 1..5})
                            \cup ArticleLinks({1}, articles_of_A)
    /\ \E m \in MaxArticlesChoices :
            config = RunConfig(<<{}, {}, {}>>, m, 10, 0)
    /\ InitRun

\* Three categories and one more link, with and without a limit of one
\* article per category: no exclusions, articleCountPercentile = 0.
InitExport ==
    /\ pages = AllPages(1..3, ArticleIds)
    /\ category_links \in SubsetsUpTo(LinkUniverse(1..3, ArticleIds), MaxLinks + 1)
    /\ \E m \in LimitChoices, b \in ModOperands :
            config = RunConfig(<<{}, {}, {}>>, m, b, 0)
    /\ InitRun

\* Runs that follow one another on a cleaned destination, with and without
\* the snapshot of the tree data: three categories, no exclusions, no limit.
InitRuns ==
    /\ pages = AllPages(1..3, ArticleIds)
    /\ category_links \in SubsetsUpTo(LinkUniverse(1..3, ArticleIds), MaxLinks)
    /\ \E m \in MaxArticlesChoices, b \in ModOperands, use_cache \in BOOLEAN :
            config = [RunConfig(<<{}, {}, {}>>, m, b, 0)
                         EXCEPT !.use_cache = use_cache, !.clean = TRUE]
    /\ InitRun

\* A chain A -> B -> C whose categories hold any of three articles, exported
\* without a limit and with a limit of one and of two articles per category.
InitSampling ==
    /\ pages = AllPages(1..3, SamplingArticleIds)
    /\ \E memberships \in SUBSET ArticleLinks(1..3, SamplingArticleIds) :
         category_links = SubcatLinks({1}, {2}) \cup SubcatLinks({2}, {3}) \cup memberships
    /\ \E m \in SamplingLimits, b \in ModOperands :
            config = RunConfig(<<{}, {}, {}>>, m, b, 0)
    /\ InitRun

\* A star of 51 categories: the centre and the leaves up to RoundingCategoryIds'
\* last hold no article but for 21, 22 or 23 leaves that hold one each, and
\* articleCountPercentile is 57, 58 or 59.
InitRounding ==
    /\ pages = AllPages(RoundingCategoryIds, {ArticleId(1)})
    /\ \E k \in 21..23 :
         category_links = SubcatLinks({1}, RoundingCategoryIds \ {1})
                            \cup ArticleLinks(2..(k + 1), {ArticleId(1)})
    /\ \E m \in MaxArticlesChoices, b \in ModOperands, q \in 57..59 :
            config = RunConfig(<<{}, {}, {}>>, m, b, q)
    /\ InitRun

\* A chain A -> B -> C whose categories hold any of the articles, under every
\* articleCountPercentile from 0 to 100.
InitPercentile ==
    /\ pages = AllPages(1..3, ArticleIds)
    /\ \E memberships \in SUBSET ArticleLinks(1..3, ArticleIds) :
         category_links = SubcatLinks({1}, {2}) \cup SubcatLinks({2}, {3}) \cup memberships
    /\ \E m \in MaxArticlesChoices, b \in ModOperands, q \in AllPercentiles :
            config = RunConfig(<<{}, {}, {}>>, m, b, q)
    /\ InitRun

\* Pages A, B and a1 only, and links that may name the category C or point
\* at the ids 3 and a2 no page has, or at a page of the other kind.
InitAssembler ==
    /\ pages = AllPages(1..2, {ArticleId(1)})
    /\ category_links \in
            SubsetsUpTo({[parent_name |-> CategoryNames[p], child_id |-> c, is_article |-> a] :
                            p \in 1..3, c \in 1..3 \cup {ArticleId(1), ArticleId(2)},
                            a \in BOOLEAN},
                        MaxLinks)
    /\ \E m \in MaxArticlesChoices, b \in ModOperands :
            config = RunConfig(<<{}, {}, {}>>, m, b, 0)
    /\ InitRun

\* ------------------------------------------------------------------- actions
\* with config.use_cache the tree data is assembled and pickled when there is
\* no snapshot, and unpickled from the snapshot when there is one
GetOrLoadCategoryTreeData ==
    /\ pc = "start"
    /\ IF config.use_cache /\ cache = {}
       THEN /\ data' = GetCategoryTreeData(category_links, pages)
            /\ cache' = {data'}
       ELSE IF config.use_cache
       THEN /\ \E snapshot \in cache : data' = PickleLoad(snapshot)
            /\ UNCHANGED cache
       ELSE /\ data' = GetCategoryTreeData(category_links, pages)
            /\ UNCHANGED cache
    /\ pc' = "loaded"
    /\ UNCHANGED <<pages, category_links, config, previous, run, cat_graph, excluded_categories,
                   excluded_articles, min_article_count, small_categories,
                   to_remove, added_articles, tasks, completed, failed_writes,
                   dirs, files, root_index, shard_index, result, error>>

BuildGraph ==
    /\ pc = "loaded"
    /\ cat_graph' = BuildCategoryGraph(data)
    /\ pc' = "graph"
    /\ UNCHANGED <<pages, category_links, config, cache, previous, run, data, excluded_categories,
                   excluded_articles, min_article_count, small_categories,
                   to_remove, added_articles, tasks, completed, failed_writes,
                   dirs, files, root_index, shard_index, result, error>>

GetExcluded ==
    /\ pc = "graph"
    /\ IF GetExcludedRaises(config, cat_graph)
       THEN /\ pc' = "failed"
            /\ error' = "NetworkXError"
            /\ UNCHANGED <<excluded_categories, excluded_articles>>
       ELSE /\ excluded_categories' = GetExcludedCategories(config, cat_graph)
            /\ excluded_articles' = GetExcludedArticles(config, data)
            /\ pc' = "excluded"
            /\ UNCHANGED error
    /\ UNCHANGED <<pages, category_links, config, cache, previous, run, data, cat_graph,
                   min_article_count, small_categories, to_remove,
                   added_articles, tasks, completed, failed_writes, dirs, files,
                   root_index, shard_index, result>>

RemoveExcludedArticles ==
    /\ pc = "excluded"
    /\ data' = RemoveArticles(data, excluded_articles)
    /\ pc' = "articles_removed"
    /\ UNCHANGED <<pages, category_links, config, cache, previous, run, cat_graph, excluded_categories,
                   excluded_articles, min_article_count, small_categories,
                   to_remove, added_articles, tasks, completed, failed_writes,
                   dirs, files, root_index, shard_index, result, error>>

RemoveExcludedCategories ==
    /\ pc = "articles_removed"
    /\ cat_graph' = RemoveCategories(cat_graph, excluded_categories)
    /\ pc' = "categories_removed"
    /\ UNCHANGED <<pages, category_links, config, cache, previous, run, data, excluded_categories,
                   excluded_articles, min_article_count, small_categories,
                   to_remove, added_articles, tasks, completed, failed_writes,
                   dirs, files, root_index, shard_index, result, error>>

RemoveSmallCategories ==
    /\ pc = "categories_removed"
    /\ IF PercentileRaises(cat_graph)
       THEN /\ pc' = "failed"
            /\ error' = "PercentileOfEmpty"
            /\ UNCHANGED <<min_article_count, small_categories, cat_graph>>
       ELSE /\ min_article_count' = MinArticleCount(cat_graph, config, data)
            /\ small_categories' = SmallCategories(cat_graph, data, min_article_count')
            /\ cat_graph' = IF small_categories' # {}
                            THEN RemoveNodesFrom(cat_graph, small_categories')
                            ELSE cat_graph
            /\ pc' = "small_removed"
            /\ UNCHANGED error
    /\ UNCHANGED <<pages, category_links, config, cache, previous, run, data, excluded_categories,
                   excluded_articles, to_remove, added_articles, tasks,
                   completed, failed_writes, dirs, files, root_index,
                   shard_index, result>>

KeepLargestGraphComponent ==
    /\ pc = "small_removed"
    /\ IF LargestRaises(cat_graph)
       THEN /\ pc' = "failed"
            /\ error' = "MaxOfEmpty"
            /\ UNCHANGED <<to_remove, cat_graph>>
       ELSE /\ \E largest_component \in FirstLargest(cat_graph, category_links, previous) :
                  /\ to_remove' = cat_graph.nodes \ largest_component
                  /\ cat_graph' = RemoveCategories(cat_graph, to_remove')
            /\ pc' = "largest_kept"
            /\ UNCHANGED error
    /\ UNCHANGED <<pages, category_links, config, cache, previous, run, data, excluded_categories,
                   excluded_articles, min_article_count, small_categories,
                   added_articles, tasks, completed, failed_writes, dirs, files,
                   root_index, shard_index, result>>

CreateChunkDirs ==
    /\ pc = "largest_kept"
    /\ dirs' = dirs \cup (0..(config.balancing_mod_operand - 1))
    /\ pc' = "exporting"
    /\ UNCHANGED <<pages, category_links, config, cache, previous, run, data, cat_graph,
                   excluded_categories, excluded_articles, min_article_count,
                   small_categories, to_remove, added_articles, tasks, completed,
                   failed_writes, files, root_index, shard_index, result, error>>

Generated == {t.category : t \in tasks}

\* one iteration of get_files_contents, and the submit of what it yields
GetFilesContents ==
    /\ pc = "exporting"
    /\ \E category \in cat_graph.nodes \ Generated :
        \E articles \in ArticleChoices(data, category, config.max_articles_per_category) :
            /\ added_articles' = UpdateAddedArticles(added_articles, articles)
            /\ tasks' = tasks \cup
                 {[category |-> category,
                   path |-> PathOf(category, config.balancing_mod_operand),
                   contents |-> FileContents(cat_graph, data, category, articles)]}
    /\ UNCHANGED <<pages, category_links, config, cache, previous, run, data, cat_graph,
                   excluded_categories, excluded_articles, min_article_count,
                   small_categories, to_remove, completed, failed_writes, dirs,
                   files, root_index, shard_index, result, error, pc>>

Pending == tasks \ (completed \cup failed_writes)

\* leaving the with block of the executor: shutdown(wait=True)
\* (mutation: the pool is left without waiting for its workers)
AllWritesReturned_NotAwaited == TRUE

AllWritesReturned == Pending = {}

\* write_file in a worker: write_bytes needs the shard directory to exist
WriteFile ==
    /\ pc = "exporting"
    /\ \E t \in Pending :
        IF t.path[1] \in dirs
        THEN /\ files' = [p \in DOMAIN files \cup {t.path} |->
                             IF p = t.path THEN t.contents ELSE files[p]]
             /\ completed' = completed \cup {t}
             /\ UNCHANGED failed_writes
        ELSE /\ failed_writes' = failed_writes \cup {t}
             /\ UNCHANGED <<files, completed>>
    /\ UNCHANGED <<pages, category_links, config, cache, previous, run, data, cat_graph,
                   excluded_categories, excluded_articles, min_article_count,
                   small_categories, to_remove, added_articles, tasks, dirs,
                   root_index, shard_index, result, error, pc>>

\* write_file in a worker, the operating system refusing the write
WriteFileFails ==
    /\ pc = "exporting"
    /\ \E t \in Pending : failed_writes' = failed_writes \cup {t}
    /\ UNCHANGED <<pages, category_links, config, cache, previous, run, data, cat_graph,
                   excluded_categories, excluded_articles, min_article_count,
                   small_categories, to_remove, added_articles, tasks, completed,
                   dirs, files, root_index, shard_index, result, error, pc>>

\* every item was generated and submitted, every write returned: the with
\* block ends and _process_and_write_categories returns added_articles
FinishWrites ==
    /\ pc = "exporting"
    /\ Generated = cat_graph.nodes
    /\ AllWritesReturned
    /\ ~ResultsRaise
    /\ pc' = "written"
    /\ UNCHANGED <<pages, category_links, config, cache, previous, run, data, cat_graph,
                   excluded_categories, excluded_articles, min_article_count,
                   small_categories, to_remove, added_articles, tasks, completed,
                   failed_writes, dirs, files, root_index, shard_index, result,
                   error>>

\* a write raised: the loop over the results re-raises it, the writes not yet
\* started are cancelled and the exception leaves process_categories
PropagateWriteFailure ==
    /\ pc = "exporting"
    /\ Generated = cat_graph.nodes
    /\ ResultsRaise
    /\ pc' = "failed"
    /\ error' = "OSError"
    /\ UNCHANGED <<pages, category_links, config, cache, previous, run, data, cat_graph,
                   excluded_categories, excluded_articles, min_article_count,
                   small_categories, to_remove, added_articles, tasks, completed,
                   failed_writes, dirs, files, root_index, shard_index, result>>

WriteDirIndices ==
    /\ pc = "written"
    /\ \E listing \in ListDir(RootDirList(dirs, files)) : root_index' = {listing}
    /\ shard_index' \in [dirs -> UNION {ListDir(ShardDirList(s, files)) : s \in dirs}]
    /\ \A s \in dirs : shard_index'[s] \in ListDir(ShardDirList(s, files))
    /\ pc' = "indexed"
    /\ UNCHANGED <<pages, category_links, config, cache, previous, run, data, cat_graph,
                   excluded_categories, excluded_articles, min_article_count,
                   small_categories, to_remove, added_articles, tasks, completed,
                   failed_writes, dirs, files, result, error>>

ReturnCategoriesInfo ==
    /\ pc = "indexed"
    /\ result' = {[categories_count |-> Cardinality(cat_graph.nodes),
                   articles_count |-> Cardinality(added_articles),
                   balancing_mod_operand |-> config.balancing_mod_operand]}
    /\ pc' = "done"
    /\ UNCHANGED <<pages, category_links, config, cache, previous, run, data, cat_graph,
                   excluded_categories, excluded_articles, min_article_count,
                   small_categories, to_remove, added_articles, tasks, completed,
                   failed_writes, dirs, files, root_index, shard_index, error>>

\* the state of the destination that _prepare_output_dir asserts
DestEmpty == dirs = {} /\ DOMAIN files = {} /\ root_index = {}

\* the links the next run reads: the same dump, or a later one that lost a link
NextLinks(links) == {links} \cup {links \ {l} : l \in links}

\* cli.main once more after a completed run: _prepare_output_dir removes the
\* destination when config.clean, and refuses one that is not empty
RunAgain ==
    /\ pc = "done"
    /\ run < MaxRuns
    /\ IF ~config.clean /\ ~DestEmpty
       THEN /\ pc' = "failed"
            /\ error' = "AssertionError"
            /\ UNCHANGED <<category_links, previous, run, data, cat_graph,
                           excluded_categories, excluded_articles,
                           min_article_count, small_categories, to_remove,
                           added_articles, tasks, completed, failed_writes, dirs,
                           files, root_index, shard_index, result>>
       ELSE /\ \E links \in NextLinks(category_links) : category_links' = links
            /\ previous' = {[category_links |-> category_links,
                             kept |-> cat_graph.nodes,
                             dirs |-> dirs,
                             files |-> files,
                             root_index |-> root_index,
                             shard_index |-> shard_index]}
            /\ data' = EmptyData
            /\ cat_graph' = EmptyGraph
            /\ excluded_categories' = {}
            /\ excluded_articles' = {}
            /\ min_article_count' = 0
            /\ small_categories' = {}
            /\ to_remove' = {}
            /\ added_articles' = {}
            /\ tasks' = {}
            /\ completed' = {}
            /\ failed_writes' = {}
            /\ dirs' = {}
            /\ files' = <<>>
            /\ root_index' = {}
            /\ shard_index' = <<>>
            /\ result' = {}
            /\ error' = "none"
            /\ run' = run + 1
            /\ pc' = "start"
    /\ UNCHANGED <<pages, config, cache>>

Next ==
    \/ GetOrLoadCategoryTreeData
    \/ BuildGraph
    \/ GetExcluded
    \/ RemoveExcludedArticles
    \/ RemoveExcludedCategories
    \/ RemoveSmallCategories
    \/ KeepLargestGraphComponent
    \/ CreateChunkDirs
    \/ GetFilesContents
    \/ WriteFile
    \/ WriteFileFails
    \/ FinishWrites
    \/ PropagateWriteFailure
    \/ WriteDirIndices
    \/ ReturnCategoriesInfo
    \/ RunAgain

Spec == Init /\ [][Next]_vars

SpecGrandparents == InitGrandparents /\ [][Next]_vars

SpecComponents == InitComponents /\ [][Next]_vars

SpecScenario == InitScenario /\ [][Next]_vars

SpecExport == InitExport /\ [][Next]_vars

SpecRuns == InitRuns /\ [][Next]_vars

SpecSampling == InitSampling /\ [][Next]_vars

SpecRounding == InitRounding /\ [][Next]_vars

SpecPercentile == InitPercentile /\ [][Next]_vars

SpecAssembler == InitAssembler /\ [][Next]_vars

\* ---------------------------------------------------- what the claims read
\* the category ids that have a .category file on disk
Exported == {p[2] : p \in DOMAIN files}

Completed == pc \in {"written", "indexed", "done"}

Pruned ==
    pc \in {"categories_removed", "small_removed", "largest_kept", "exporting",
            "written", "indexed", "done"}

\* the inputs read directly, without the assembler and the graph
IdOfCategoryName(name) == CHOOSE c \in DOMAIN CategoryNames : CategoryNames[c] = name

InputEdges ==
    {<<IdOfCategoryName(l.parent_name), l.child_id>> :
        l \in {k \in category_links : ~k.is_article}}

InputSuccessors(n) == {e[2] : e \in {d \in InputEdges : d[1] = n}}

InputArticles(c) ==
    {l.child_id :
        l \in {k \in category_links : k.is_article /\ k.parent_name = CategoryNames[c]}}

ExcludedArticleSet ==
    UNION {InputArticles(a) : a \in config.excluded_article_categories}

\* C1: every written record lists as predecessors and successors exactly
\* those of the graph after all three pruning stages; once the export is
\* complete every listed id is an exported category, and no id of a node
\* removed by any stage is ever listed.
C1_RecordsMatchPrunedGraph ==
    \A p \in DOMAIN files :
        LET f == files[p]
            c == p[2]
        IN  /\ f.predecessors = Predecessors(cat_graph, c)
            /\ f.successors = Successors(cat_graph, c)
            /\ f.predecessors = {n \in cat_graph.nodes : <<n, c>> \in InputEdges}
            /\ f.successors = {n \in cat_graph.nodes : <<c, n>> \in InputEdges}
            /\ (f.predecessors \cup f.successors)
                   \cap (excluded_categories \cup small_categories \cup to_remove) = {}
            /\ Completed => (f.predecessors \cup f.successors) \subseteq Exported

C1_Witness ==
    /\ pc = "done"
    /\ \E p \in DOMAIN files :
        /\ files[p].predecessors # {}
        /\ InputSuccessors(p[2]) \ cat_graph.nodes # {}

\* C2: every article id of every written record is a key of
\* article_id_to_name and is not an article of a category listed in
\* excluded_article_categories.
C2_ArticlesKnownAndNotExcluded ==
    \A p \in DOMAIN files :
        \A a \in Range(files[p].articles) :
            /\ a \in DOMAIN data.article_id_to_name
            /\ a \notin ExcludedArticleSet

C2_Witness ==
    /\ pc = "done"
    /\ \E p \in DOMAIN files :
        /\ files[p].articles # <<>>
        /\ InputArticles(p[2]) \cap ExcludedArticleSet # {}

\* C3: an excluded parent and each of its direct successors in the graph as
\* built are never exported and are out of the graph once the exclusions are
\* removed; an excluded parent the graph lacks raises nothing.
C3_ExcludedParentsAbsent ==
    /\ error # "NetworkXError"
    /\ \A e \in config.excluded_parents :
        /\ ({e} \cup InputSuccessors(e)) \cap Exported = {}
        /\ Pruned => ({e} \cup InputSuccessors(e)) \cap cat_graph.nodes = {}

C3_Witness ==
    /\ pc = "done"
    /\ Exported # {}
    /\ \E e \in config.excluded_parents : InputSuccessors(e) \ {e} # {}

\* C4: an excluded grandparent that is a node of the graph, its direct
\* successors and their successors, all read from the graph as built, are
\* never exported and are out of the graph once the exclusions are removed.
C4_ExcludedGrandparentsAbsent ==
    \A g \in config.excluded_grandparents :
        LET two_levels ==
                {g} \cup InputSuccessors(g)
                    \cup UNION {InputSuccessors(child) : child \in InputSuccessors(g)}
        IN  /\ two_levels \cap Exported = {}
            /\ Pruned => two_levels \cap cat_graph.nodes = {}

C4_Witness ==
    /\ pc = "done"
    /\ Exported # {}
    /\ \E g \in config.excluded_grandparents :
        \E child \in InputSuccessors(g) \ {g} :
            InputSuccessors(child) \ ({g} \cup InputSuccessors(g)) # {}

\* a weakly connected component of G: a non-empty set of nodes no edge
\* leaves, no proper part of which has that property
ClosedIn(G, S) == \A e \in G.edges : e[1] \in S <=> e[2] \in S

IsComponent(G, S) ==
    /\ S # {}
    /\ S \subseteq G.nodes
    /\ ClosedIn(G, S)
    /\ \A T \in SUBSET S : (T # {} /\ T # S) => ~ClosedIn(G, T)

\* C5: the connectivity cleanup leaves exactly one weakly connected
\* component of the graph it was given, none of that graph's components has
\* more nodes, and every other node is removed whatever its article count.
C5_KeepsOneLargestComponent ==
    [][(pc = "small_removed" /\ pc' = "largest_kept") =>
        /\ IsComponent(cat_graph, cat_graph'.nodes)
        /\ \A T \in SUBSET cat_graph.nodes :
              IsComponent(cat_graph, T) => Cardinality(T) <= Cardinality(cat_graph'.nodes)
        /\ cat_graph'.edges =
              {e \in cat_graph.edges : e[1] \in cat_graph'.nodes /\ e[2] \in cat_graph'.nodes}
        /\ to_remove' = cat_graph.nodes \ cat_graph'.nodes]_vars

C5_Witness ==
    /\ pc = "largest_kept"
    /\ Cardinality(cat_graph.nodes) >= 2
    /\ \E n \in to_remove : \E k \in cat_graph.nodes :
          ArticleCount(data, n) >= ArticleCount(data, k)

\* C6: no pruning stage raises on an empty graph: the run never ends with
\* the exception of a percentile or a maximum taken of nothing.
C6_NoStageRaisesOnEmpty ==
    ~(pc = "failed" /\ error \in {"PercentileOfEmpty", "MaxOfEmpty"})

InScenario ==
    /\ data.category_edges = {<<1, 2>>}
    /\ ArticleCount(data, 2) = 5
    /\ config.article_count_percentile = 0
    /\ config.balancing_mod_operand = 10

\* C7, as stated: in the scenario, when A's article count is at least the
\* threshold, A and B both survive and B's record is (B, [A], [], 5 ids).
C7_BothSurvive ==
    (pc = "done" /\ InScenario /\ ArticleCount(data, 1) >= min_article_count) =>
        /\ cat_graph.nodes = {1, 2}
        /\ <<2, 2>> \in DOMAIN files
        /\ files[<<2, 2>>].name = "B"
        /\ files[<<2, 2>>].predecessors = {1}
        /\ files[<<2, 2>>].successors = {}
        /\ files[<<2, 2>>].articles = data.category_to_articles[2]

\* C7, amended: in the scenario, when A's article count is at least the
\* threshold, the threshold is 6, B is removed as a small category and gets
\* no file, and A alone is exported, with no predecessor and no successor.
C7_OnlyASurvives ==
    (pc = "done" /\ InScenario /\ ArticleCount(data, 1) >= min_article_count) =>
        /\ min_article_count = 6
        /\ small_categories = {2}
        /\ cat_graph.nodes = {1}
        /\ DOMAIN files = {<<1, 1>>}
        /\ files[<<1, 1>>].name = "A"
        /\ files[<<1, 1>>].predecessors = {}
        /\ files[<<1, 1>>].successors = {}
        /\ files[<<1, 1>>].articles = data.category_to_articles[1]

C7_Witness ==
    pc = "done" /\ InScenario /\ ArticleCount(data, 1) >= min_article_count

\* C8, as stated: the root dir_list.index lists exactly the shards that hold
\* at least one category file.
C8_RootIndexListsNonEmptyShards ==
    pc \in {"indexed", "done"} =>
        /\ root_index # {}
        /\ \A listing \in root_index :
              Range(listing) = {s \in dirs : \E p \in DOMAIN files : p[1] = s}

\* C8, amended: the root dir_list.index lists every shard id
\* 0..balancing_mod_operand-1, each shard directory being created before the
\* export and listed whether or not it holds a category file.
C8_RootIndexListsAllShards ==
    pc \in {"indexed", "done"} =>
        /\ root_index # {}
        /\ \A listing \in root_index :
              Range(listing) = 0..(config.balancing_mod_operand - 1)

C8_Witness ==
    /\ pc = "done"
    /\ Exported # {}
    /\ \E s \in dirs : \A p \in DOMAIN files : p[1] # s

\* C9: after a completed export the category files are exactly one per node
\* of the pruned graph, at <node mod balancing_mod_operand>/<node>.category;
\* at no time is there a category file of anything else.
C9_OneFilePerCategory ==
    /\ \A p \in DOMAIN files :
          p[2] \in cat_graph.nodes /\ p[1] = p[2] % config.balancing_mod_operand
    /\ Completed =>
          DOMAIN files = {<<c % config.balancing_mod_operand, c>> : c \in cat_graph.nodes}

C9_Witness ==
    /\ pc = "done"
    /\ \E p, q \in DOMAIN files : p[1] # q[1]

\* C10: once the write of a category file has failed, the run never gets
\* past the export: no dir_list.index is written and no CategoriesInfo is
\* returned, and the failure is what leaves process_categories.
C10_WriteFailurePropagates ==
    /\ failed_writes # {} =>
          /\ pc \in {"exporting", "failed"}
          /\ root_index = {}
          /\ shard_index = <<>>
          /\ result = {}
          /\ pc = "failed" => error = "OSError"
    /\ error = "OSError" => failed_writes # {}

C10_Witness ==
    /\ pc = "failed"
    /\ error = "OSError"
    /\ completed # {}

\* C11: every byte string a written record is serialized to splits into its
\* five length-prefixed fields, which decode to the record's name, ids and
\* article names, and encoding what was decoded gives the same bytes again.
C11_RecordRoundTrips ==
    \A p \in DOMAIN files : \A bytes \in RecordBytes(files[p]) :
        /\ WellFormed(bytes)
        /\ LET d == DecodeCategory(bytes)
           IN  /\ SerializeCategory(d.name, d.predecessors, d.successors,
                                    d.articles, d.article_names) = bytes
               /\ d.name = files[p].name
               /\ Range(d.predecessors) = files[p].predecessors
               /\ Range(d.successors) = files[p].successors
               /\ d.articles = files[p].articles
               /\ d.article_names = files[p].article_names

C11_Witness ==
    /\ pc = "done"
    /\ \E p \in DOMAIN files :
          files[p].predecessors # {} /\ Len(files[p].articles) >= 2
    /\ \E p \in DOMAIN files :
          files[p].successors # {} /\ files[p].articles # <<>>

IsExportOf(fs, d, cfg) ==
    LET G0 == BuildCategoryGraph(d)
        d1 == RemoveArticles(d, GetExcludedArticles(cfg, d))
        G1 == RemoveCategories(G0, GetExcludedCategories(cfg, G0))
    IN  /\ ~GetExcludedRaises(cfg, G0)
        /\ ~PercentileRaises(G1)
        /\ LET G2 == RemoveNodesFrom(G1, SmallCategories(G1, d1, MinArticleCount(G1, cfg, d1)))
           IN  \E largest_component \in LargestComponents(G2) :
                 LET G3 == RemoveCategories(G2, G2.nodes \ largest_component)
                 IN  /\ DOMAIN fs = {PathOf(c, cfg.balancing_mod_operand) : c \in G3.nodes}
                     /\ \A c \in G3.nodes :
                          \E articles \in ArticleChoices(d1, c, cfg.max_articles_per_category) :
                              fs[PathOf(c, cfg.balancing_mod_operand)]
                                  = FileContents(G3, d1, c, articles)

\* C13: with use_cache enabled, the category files of every completed run are
\* those a fresh build from the run's own pages and category links exports,
\* whatever inputs the stored snapshot was assembled from.
C13_CacheIsInert ==
    (pc = "done" /\ config.use_cache)
        => IsExportOf(files, GetCategoryTreeData(category_links, pages), config)

\* ---------------------------------------------------------------------- C14
\* C14: no two write tasks have the same path, a finished write leaves at
\* its path the contents generated for its category whatever the other
\* workers did before or after, and when the pool is done every category
\* file holds the contents generated for it.
C14_WritesNeverCollide ==
    /\ \A t, u \in tasks : t.path = u.path => t = u
    /\ \A t \in completed : t.path \in DOMAIN files /\ files[t.path] = t.contents
    /\ pc \in {"written", "indexed", "done"} =>
          /\ DOMAIN files = {t.path : t \in tasks}
          /\ \A t \in tasks : files[t.path] = t.contents

C14_Witness ==
    /\ pc = "done"
    /\ \E t, u \in tasks : t # u /\ t.path[1] = u.path[1]

\* ---------------------------------------------------------------------- C17
\* C17: as long as a write of the pool is outstanding, or the export has not
\* returned, there is no dir_list.index; once the indexes are written every
\* write has completed, and each shard's index lists, once each, exactly the
\* ids of the category files in that shard.
C17_IndexesAfterAllWrites ==
    /\ (Pending # {} \/ pc \notin {"indexed", "done", "failed"}) =>
          root_index = {} /\ shard_index = <<>>
    /\ (root_index # {} \/ shard_index # <<>>) =>
          Generated = cat_graph.nodes /\ completed = tasks
    /\ pc \in {"indexed", "done"} =>
          /\ DOMAIN shard_index = dirs
          /\ \A s \in dirs :
                /\ Range(shard_index[s]) = {p[2] : p \in {q \in DOMAIN files : q[1] = s}}
                /\ Len(shard_index[s]) = Cardinality(Range(shard_index[s]))

C17_Witness ==
    /\ pc = "done"
    /\ \E s \in dirs : Len(shard_index[s]) >= 2

\* ---------------------------------------------------------------------- C18
\* the article ids of the records in fs
WrittenArticles(fs) == UNION {Range(fs[p].articles) : p \in DOMAIN fs}

\* C18: added_articles changes only in a step of the generator (one that
\* yields an item) or when a new run starts, never in a step of a write
\* worker; it holds the article ids of the records generated so far, which
\* after the export are the article ids of the written records, and the
\* articles_count returned is its size.
C18_AccumulatorOwnedByGenerator ==
    /\ [][added_articles' # added_articles =>
              \/ Generated' # Generated /\ completed' = completed /\ files' = files
              \/ pc = "done" /\ pc' = "start"]_vars
    /\ [](/\ added_articles = UNION {Range(t.contents.articles) : t \in tasks}
          /\ pc \in {"written", "indexed", "done"} =>
                added_articles = WrittenArticles(files)
          /\ \A r \in result : r.articles_count = Cardinality(added_articles))

C18_Witness ==
    /\ pc = "done"
    /\ Cardinality(added_articles) = 2
    /\ \E p, q \in DOMAIN files :
          p # q /\ Range(files[p].articles) \cap Range(files[q].articles) # {}
    /\ \E r \in result : r.articles_count = 2

\* ---------------------------------------------------------------------- C19
\* C19: with a limit other than -1 no record holds more article ids than the
\* limit; a record of a category whose filtered list is longer holds exactly
\* limit entries taken from pairwise different positions of that list, and
\* any other record holds the filtered list as it is. With or without a
\* limit, article_names holds the name of each article id, in the same order.
C19_LimitBoundsEveryRecord ==
    \A p \in DOMAIN files :
        LET f == files[p]
            filtered == FilteredArticles(data, p[2])
            max_articles == config.max_articles_per_category
        IN  /\ max_articles # -1 =>
                  /\ Len(f.articles) <= max_articles
                  /\ IF Len(filtered) > max_articles
                     THEN /\ Len(f.articles) = max_articles
                          /\ \E pos \in [DOMAIN f.articles -> DOMAIN filtered] :
                                /\ \A i, j \in DOMAIN pos : pos[i] = pos[j] => i = j
                                /\ \A i \in DOMAIN pos : f.articles[i] = filtered[pos[i]]
                     ELSE f.articles = filtered
            /\ Range(filtered) = InputArticles(p[2])
            /\ DOMAIN f.article_names = DOMAIN f.articles
            /\ \A i \in DOMAIN f.articles :
                  f.article_names[i] = ArticleNames[f.articles[i] - 100]

C19_Witness ==
    /\ pc = "done"
    /\ config.max_articles_per_category = 2
    /\ \E p, q \in DOMAIN files :
          /\ Len(FilteredArticles(data, p[2])) = 3
          /\ files[p].articles = <<ArticleId(3), ArticleId(1)>>
          /\ Len(FilteredArticles(data, q[2])) = 2
          /\ files[q].articles = FilteredArticles(data, q[2])

\* ---------------------------------------------------------------------- C15
\* C15: the small-category removal removes exactly the nodes of the graph it
\* is given whose article count is below floor(percentile(counts, q)) + 1,
\* the percentile being the linear interpolation over the sorted counts of
\* the nodes of that graph, and removes no other node.
C15_RemovesBelowFloorOfPercentile ==
    [][(pc = "categories_removed" /\ pc' = "small_removed") =>
          cat_graph'.nodes =
              {n \in cat_graph.nodes :
                  ArticleCount(data, n) >=
                      LinearPercentileFloor(SortedCounts(cat_graph.nodes, data),
                                            config.article_count_percentile) + 1}]_vars

\* ---------------------------------------------------------------------- C20
\* C20: when the graph that enters the small-category removal has a node, the
\* stage completes and removes every node whose article count is the least
\* in that graph, whatever the percentile; when all counts are equal it
\* leaves no node.
C20_MinimumCountNodesRemoved ==
    [][(pc = "categories_removed" /\ cat_graph.nodes # {}) =>
          LET counts == {ArticleCount(data, n) : n \in cat_graph.nodes}
          IN  /\ pc' = "small_removed"
              /\ \A n \in cat_graph.nodes :
                    ArticleCount(data, n) = Min(counts) => n \notin cat_graph'.nodes
              /\ Cardinality(counts) = 1 => cat_graph'.nodes = {}]_vars

C20_Witness ==
    /\ pc = "small_removed"
    /\ config.article_count_percentile = 100
    /\ min_article_count = 3
    /\ small_categories = {1, 2, 3}
    /\ cat_graph.nodes = {}

\* ---------------------------------------------------------------------- C16
\* C16: assembling the tree data never fails, and in the assembled data
\* every edge has as parent the id of a known category whose title a
\* subcategory link names and as child the id of a known category that link
\* points at, and every article of a category's list is a known article that
\* an article link puts under the title of that known category; so a link
\* whose parent title or whose child id is unknown leaves no trace.
C16_OnlyResolvableLinksRecorded ==
    /\ [][pc = "start" => pc' = "loaded" /\ error' = "none"]_vars
    /\ [](pc = "loaded" =>
            LET cin == data.category_id_to_name
                ain == data.article_id_to_name
            IN  /\ DOMAIN cin = {p.page_id : p \in {q \in pages : ~q.is_article}}
                /\ DOMAIN ain = {p.page_id : p \in {q \in pages : q.is_article}}
                /\ \A e \in data.category_edges :
                      /\ e[1] \in DOMAIN cin
                      /\ e[2] \in DOMAIN cin
                      /\ \E l \in category_links :
                            ~l.is_article /\ l.parent_name = cin[e[1]] /\ l.child_id = e[2]
                /\ \A c \in DOMAIN data.category_to_articles :
                      /\ c \in DOMAIN cin
                      /\ \A a \in Range(data.category_to_articles[c]) :
                            /\ a \in DOMAIN ain
                            /\ \E l \in category_links :
                                  l.is_article /\ l.parent_name = cin[c] /\ l.child_id = a)

C16_Witness ==
    /\ pc = "loaded"
    /\ data.category_edges = {<<1, 2>>}
    /\ \E l \in category_links : l.parent_name = "C"
    /\ \E l \in category_links : l.parent_name = "A" /\ ~l.is_article /\ l.child_id = 3
    /\ \E l \in category_links :
          l.parent_name = "A" /\ l.is_article /\ l.child_id = ArticleId(2)

====
